---- MODULE Spec2Model ----
(***************************************************************************)
(* Response Visualizer: the load -> normalize -> filter -> aggregate       *)
(* pipeline of src/app.py (Dash variant) and src/streamlit_app.py          *)
(* (Streamlit variant), as a state machine.                                *)
(*                                                                         *)
(* A table (pandas DataFrame) is a record                                  *)
(*     [columns : Seq(Name), rows : Seq(Seq(Cell))]                        *)
(* whose rows are aligned with its columns.  A column name is a sequence   *)
(* of tokens (words and the blank " "), so that str.strip() is an          *)
(* operation on it.  A cell is a record tagged by its kind k:              *)
(*     "nan"      an empty cell (NaN)                                      *)
(*     "str"      text that spells neither a number nor a date (field s)   *)
(*     "numstr"   text that spells the number n                            *)
(*     "datestr"  text that spells day d, time of day h                    *)
(*     "num"      a number n          (after pd.to_numeric)                *)
(*     "dt"       a datetime t        (after pd.to_datetime)               *)
(*     "nat"      the null datetime NaT                                    *)
(* A datetime is the integer day * TicksPerDay + time of day.              *)
(* Sheets are taken with pairwise distinct stripped column names.          *)
(***************************************************************************)
EXTENDS Integers, Sequences, FiniteSets, TLC

VARIABLES
    variant,        \* "dash" (src/app.py) or "streamlit" (src/streamlit_app.py)
    sheet,          \* the remote sheet behind SHEET_URL: Unavailable or a raw table
    today,          \* the current calendar day (pd.Timestamp.now())
    cache,          \* st.cache_data store of load_data: <<>> or <<entry>>
    df_initial,     \* Dash: the table loaded when the module is imported
    bde_options,    \* Dash: module-level dropdown values for 'bde-filter'
    plan_options,   \* Dash: module-level dropdown values for 'plan-filter'
    out,            \* what the last pipeline run took in and produced
    ndf             \* results of successive normalizer passes over the sheet

vars == <<variant, sheet, today, cache, df_initial, bde_options, plan_options, out, ndf>>

-----------------------------------------------------------------------------
(* Bounds of the model *)

MaxRows == 2        \* rows of a sheet in the single-run specification
EditRows == 1       \* rows of a sheet in the specification with sheet edits
MaxToday == 2       \* last calendar day the clock reaches
TicksPerDay == 2    \* times of day a datetime distinguishes
TickStep == 20      \* seconds that pass in one Tick

(* Program constants *)

TTL == 60           \* @st.cache_data(ttl=60)
UpcomingDays == 7   \* pd.Timedelta(days=7)

-----------------------------------------------------------------------------
(* Column names *)

Blank == " "
TIMESTAMP == <<"Timestamp">>
BDE_NAME == <<"BDE", " ", "NAME">>
PLAN == <<"PLAN">>
CLOSED_AMOUNT == <<"CLOSED", " ", "AMOUNT">>
EXPECTED_CLOSURE_DATE == <<"Expected", " ", "Closure", " ", "Date">>
Recognized == <<TIMESTAMP, BDE_NAME, PLAN, CLOSED_AMOUNT, EXPECTED_CLOSURE_DATE>>

(* Cells *)

NaN == [k |-> "nan"]
NaT == [k |-> "nat"]
Str(x) == [k |-> "str", s |-> x]
NumStr(x) == [k |-> "numstr", n |-> x]
DateStr(day, hour) == [k |-> "datestr", d |-> day, h |-> hour]
Num(x) == [k |-> "num", n |-> x]
Dt(x) == [k |-> "dt", t |-> x]

IsNull(c) == c.k \in {"nan", "nat"}

Unavailable == [columns |-> <<>>, rows |-> <<>>, failed |-> TRUE]
EmptyDF == [columns |-> <<>>, rows |-> <<>>]

-----------------------------------------------------------------------------
(* Sequence helpers *)

Range(s) == {s[i] : i \in 1..Len(s)}

Last(s) == s[Len(s)]

RECURSIVE SumSeq(_)
SumSeq(s) == IF s = <<>> THEN 0 ELSE s[1] + SumSeq(Tail(s))

Min(S) == CHOOSE x \in S : \A y \in S : x <= y

RECURSIVE SortedSeq(_)
SortedSeq(S) == IF S = {} THEN <<>> ELSE <<Min(S)>> \o SortedSeq(S \ {Min(S)})

\* the elements of s in order of first appearance
RECURSIVE Unique(_)
Unique(s) ==
    IF s = <<>> THEN <<>>
    ELSE LET u == Unique(SubSeq(s, 1, Len(s) - 1))
         IN IF Last(s) \in Range(u) THEN u ELSE Append(u, Last(s))

-----------------------------------------------------------------------------
(* load_data: the normalizer *)

RECURSIVE LStrip(_)
LStrip(name) ==
    IF name # <<>> /\ name[1] = Blank THEN LStrip(Tail(name)) ELSE name

RECURSIVE RStrip(_)
RStrip(name) ==
    IF name # <<>> /\ Last(name) = Blank
    THEN RStrip(SubSeq(name, 1, Len(name) - 1)) ELSE name

\* mutant: strips one blank on each side only
StripOnce(name) ==
    LET l == IF name # <<>> /\ name[1] = Blank THEN Tail(name) ELSE name
    IN IF l # <<>> /\ Last(l) = Blank THEN SubSeq(l, 1, Len(l) - 1) ELSE l

\* str.strip() of one column name
Strip(name) == RStrip(LStrip(name))

\* df.columns = df.columns.str.strip()
StripColumns(df) == [df EXCEPT !.columns = [i \in 1..Len(df.columns) |-> Strip(df.columns[i])]]

HasColumn(df, name) == \E i \in 1..Len(df.columns) : df.columns[i] = name

ColumnIndex(df, name) == CHOOSE i \in 1..Len(df.columns) : df.columns[i] = name

\* pd.to_datetime(cell, errors='coerce')
ToDatetime(c) ==
    CASE c.k = "dt" -> c
      [] c.k = "datestr" -> Dt(c.d * TicksPerDay + c.h)
      [] OTHER -> NaT

\* pd.to_numeric(cell, errors='coerce')
ToNumeric(c) ==
    CASE c.k = "num" -> c
      [] c.k = "numstr" -> Num(c.n)
      [] OTHER -> NaN

\* .fillna(0)
FillNa0(c) == IF IsNull(c) THEN Num(0) ELSE c

\* mutant: pd.to_numeric(...) without .fillna(0)
ClosedAmountNoFill(c) == ToNumeric(c)

\* pd.to_numeric(cell, errors='coerce') then .fillna(0)
ClosedAmount(c) == FillNa0(ToNumeric(c))

\* if 'Timestamp' in df.columns: df[name] = pd.to_datetime(df[name], errors='coerce')
ConvertDates(df, name) ==
    IF HasColumn(df, name)
    THEN LET j == ColumnIndex(df, name)
         IN [df EXCEPT !.rows = [r \in 1..Len(df.rows) |->
                                    [df.rows[r] EXCEPT ![j] = ToDatetime(df.rows[r][j])]]]
    ELSE df

\* if 'CLOSED AMOUNT' in df.columns: df[name] = pd.to_numeric(...).fillna(0)
ConvertAmounts(df, name) ==
    IF HasColumn(df, name)
    THEN LET j == ColumnIndex(df, name)
         IN [df EXCEPT !.rows = [r \in 1..Len(df.rows) |->
                                    [df.rows[r] EXCEPT ![j] = ClosedAmount(df.rows[r][j])]]]
    ELSE df

\* the body of the try block after pd.read_csv, src/app.py
NormalizeDash(raw) ==
    LET a == StripColumns(raw)
        b == ConvertDates(a, TIMESTAMP)
    IN ConvertAmounts(b, CLOSED_AMOUNT)

\* the body of the try block after pd.read_csv, src/streamlit_app.py
NormalizeStreamlit(raw) ==
    LET a == StripColumns(raw)
        b == ConvertDates(a, TIMESTAMP)
        c == ConvertDates(b, EXPECTED_CLOSURE_DATE)
    IN ConvertAmounts(c, CLOSED_AMOUNT)

Normalize(v, raw) == IF v = "dash" THEN NormalizeDash(raw) ELSE NormalizeStreamlit(raw)

\* pd.read_csv(SHEET_URL) raised (as a value: the exception on its way up)
Failed(src) == "failed" \in DOMAIN src

\* mutant: load_data without its except clause
load_data_no_except(v, src) == IF Failed(src) THEN src ELSE Normalize(v, src)

\* load_data(): the except clause turns a failed read into an empty DataFrame
load_data(v, src) == IF Failed(src) THEN EmptyDF ELSE Normalize(v, src)

\* df.empty
IsEmpty(df) == Len(df.columns) = 0 \/ Len(df.rows) = 0

-----------------------------------------------------------------------------
(* Series and DataFrame operations used by the two pipelines *)

ALL == "ALL"                \* Dash sentinel of both dropdowns
ALL_BDES == "All BDEs"      \* Streamlit sentinel of the BDE selectbox
ALL_PLANS == "All Plans"    \* Streamlit sentinel of the Plan selectbox

\* df[name] as a sequence of cells
Column(df, name) ==
    LET j == ColumnIndex(df, name)
    IN [r \in 1..Len(df.rows) |-> df.rows[r][j]]

\* df[df[name] == value]: an exact match on the text; a null cell matches nothing
WhereEquals(df, name, value) ==
    LET j == ColumnIndex(df, name)
    IN [df EXCEPT !.rows = SelectSeq(df.rows, LAMBDA row : row[j] = Str(value))]

\* Series.dt.date / Series.dt.normalize(): the calendar day of a datetime cell
DateOf(c) == c.t \div TicksPerDay

\* lexicographic order of the texts the sheets use
StrRank(x) ==
    CASE x = "A" -> 1 [] x = "ALL" -> 2 [] x = "B" -> 3
      [] x = "X" -> 4 [] x = "Y" -> 5 [] OTHER -> 6

\* Series.dropna().unique().tolist()
DropNaUnique(cells) ==
    LET kept == SelectSeq(cells, LAMBDA c : ~IsNull(c))
    IN Unique([i \in 1..Len(kept) |-> kept[i].s])

\* sorted(list of texts)
RECURSIVE SortedTexts(_)
SortedTexts(S) ==
    IF S = {} THEN <<>>
    ELSE LET m == CHOOSE x \in S : \A y \in S : StrRank(x) <= StrRank(y)
         IN <<m>> \o SortedTexts(S \ {m})

\* sorted(df[name].dropna().unique().tolist())
ObservedValues(df, name) == SortedTexts(Range(DropNaUnique(Column(df, name))))

\* df[name].sum() over the numeric column
SumColumn(df, name) ==
    LET col == Column(df, name)
    IN SumSeq([r \in 1..Len(col) |-> col[r].n])

\* (ts.dt.date >= start_date) & (ts.dt.date <= end_date); NaT compares False
InDateRange(c, start_date, end_date) ==
    c.k = "dt" /\ DateOf(c) >= start_date /\ DateOf(c) <= end_date

\* mutant: today's closures counted among the upcoming ones
IsUpcomingInclusive(c, now) ==
    c.k = "dt" /\ DateOf(c) >= now /\ DateOf(c) <= now + UpcomingDays

\* Expected Closure Date .dt.normalize() == today
IsDueToday(c, now) == c.k = "dt" /\ DateOf(c) = now

\* (closure.dt.normalize() > today) & (closure.dt.normalize() <= today + 7 days)
IsUpcoming(c, now) ==
    c.k = "dt" /\ DateOf(c) > now /\ DateOf(c) <= now + UpcomingDays

\* the rows of one group of groupby(name)
GroupRows(df, name, key) ==
    LET j == ColumnIndex(df, name)
    IN SelectSeq(df.rows, LAMBDA row : row[j] = Str(key))

\* df.groupby('BDE NAME').agg({'BDE NAME': 'count', 'CLOSED AMOUNT': 'sum'})
\*   .rename(columns={'BDE NAME': 'Count'}).reset_index():
\* one entry per non-null name, in sorted order
BdeMetrics(df) ==
    LET keys == ObservedValues(df, BDE_NAME)
    IN [i \in 1..Len(keys) |->
          LET g == [df EXCEPT !.rows = GroupRows(df, BDE_NAME, keys[i])]
          IN [name |-> keys[i], Count |-> Len(g.rows),
              amount |-> SumColumn(g, CLOSED_AMOUNT)]]

\* df['PLAN'].value_counts(): one entry per non-null plan (display order left out)
PlanCounts(df) ==
    {[plan |-> p, Count |-> Len(GroupRows(df, PLAN, p))] :
        p \in Range(DropNaUnique(Column(df, PLAN)))}

\* the calendar days of the non-null Timestamps, one per row that has one
TimestampDays(df) ==
    LET kept == SelectSeq(Column(df, TIMESTAMP), LAMBDA c : c.k = "dt")
    IN [i \in 1..Len(kept) |-> DateOf(kept[i])]

\* mutant: groupby(..., sort=False): the groups in order of first appearance
DailyCountsUnsorted(df) ==
    LET days == TimestampDays(df)
        keys == Unique(days)
    IN [i \in 1..Len(keys) |->
          [date |-> keys[i],
           Count |-> Cardinality({r \in 1..Len(days) : days[r] = keys[i]})]]

\* df.groupby(df['Timestamp'].dt.date).size().reset_index(name='Count'):
\* groupby drops the null keys and sorts the groups by key
DailyCounts(df) ==
    LET days == TimestampDays(df)
        keys == SortedSeq(Range(days))
    IN [i \in 1..Len(keys) |->
          [date |-> keys[i],
           Count |-> Cardinality({r \in 1..Len(days) : days[r] = keys[i]})]]

-----------------------------------------------------------------------------
(* One pipeline run.  A run's record holds what it took in (df, the         *)
(* selections, the effective date range, the current day), how it ended     *)
(* (status "ok", "nodata": st.warning and return, "raised": an exception    *)
(* left the run at source line raised_at) and, in produced, which outputs   *)
(* it returned (Dash) or rendered before it ended (Streamlit).  trigger is   *)
(* what started the run; fetched tells that load_data read the sheet in     *)
(* this run (rather than being served from the cache), fetch_failed that    *)
(* this read failed.                                                        *)

NoRun ==
    [status |-> "none", raised_at |-> 0, produced |-> {},
     df |-> EmptyDF, selected_bde |-> "", selected_plan |-> "",
     date_range |-> <<>>, now |-> 0,
     bde_options |-> <<>>, plan_options |-> <<>>,
     filtered_df |-> EmptyDF,
     total_responses |-> 0, total_closed_amount |-> 0,
     bde_metrics |-> <<>>, plan_counts |-> {}, daily_counts |-> <<>>,
     todays_closures |-> <<>>, upcoming_closures |-> <<>>,
     trigger |-> "none", fetched |-> FALSE, fetch_failed |-> FALSE]

Raise(run, line) == [run EXCEPT !.status = "raised", !.raised_at = line]

\* total_closed_amount = df['CLOSED AMOUNT'].sum() if 'CLOSED AMOUNT' in df.columns else 0
TotalClosedAmount(df) ==
    IF HasColumn(df, CLOSED_AMOUNT) THEN SumColumn(df, CLOSED_AMOUNT) ELSE 0

\* update_dashboard, "Apply Filters": both columns are known to be present
DashFilter(df, selected_bde, selected_plan) ==
    LET df1 == IF selected_bde # ALL THEN WhereEquals(df, BDE_NAME, selected_bde) ELSE df
    IN IF selected_plan # ALL THEN WhereEquals(df1, PLAN, selected_plan) ELSE df1

\* the charts of both variants after the BDE chart: plan_counts and daily_counts
PlanAndTimeline(run) ==
    LET df == run.filtered_df
        withPlan ==
            IF HasColumn(df, PLAN) /\ ~IsEmpty(df)
            THEN [run EXCEPT !.plan_counts = PlanCounts(df),
                             !.produced = @ \cup {"plan_counts"}]
            ELSE run
    IN IF HasColumn(df, TIMESTAMP) /\ ~IsEmpty(df)
       THEN [withPlan EXCEPT !.daily_counts = DailyCounts(df),
                             !.produced = @ \cup {"daily_counts"}]
       ELSE withPlan

\* the BDE chart and what follows it; the agg raises KeyError without CLOSED AMOUNT
Charts(run, line) ==
    LET df == run.filtered_df
    IN IF HasColumn(df, BDE_NAME) /\ ~IsEmpty(df)
       THEN IF ~HasColumn(df, CLOSED_AMOUNT)
            THEN Raise(run, line)
            ELSE PlanAndTimeline([run EXCEPT !.bde_metrics = BdeMetrics(df),
                                             !.produced = @ \cup {"bde_metrics"}])
       ELSE PlanAndTimeline(run)

\* update_dashboard(selected_bde, selected_plan, n_clicks) on the table df it loaded
update_dashboard(df, options, selected_bde, selected_plan) ==
    LET in == [NoRun EXCEPT !.df = df, !.selected_bde = selected_bde,
                            !.selected_plan = selected_plan,
                            !.bde_options = options[1], !.plan_options = options[2]]
    IN IF Failed(df) THEN Raise(in, 166)
       ELSE IF IsEmpty(df)
       THEN [in EXCEPT !.status = "ok",
                       !.produced = {"total_responses", "total_closed_amount", "data_table"}]
       ELSE IF selected_bde # ALL /\ ~HasColumn(df, BDE_NAME) THEN Raise(in, 173)
       ELSE IF selected_plan # ALL /\ ~HasColumn(df, PLAN) THEN Raise(in, 176)
       ELSE LET f == DashFilter(df, selected_bde, selected_plan)
                r == Charts([in EXCEPT !.filtered_df = f,
                                       !.total_responses = Len(f.rows),
                                       !.total_closed_amount = TotalClosedAmount(f)], 184)
            IN IF r.status = "raised"
               \* the callback returns nothing: no output is updated
               THEN Raise(in, r.raised_at)
               ELSE [r EXCEPT !.status = "ok",
                              !.produced = @ \cup {"total_responses", "total_closed_amount",
                                                    "data_table"}]

\* ['All ...'] + sorted(df[name].dropna().unique().tolist()) if name in df.columns else ['All ...']
Options(df, name, sentinel) ==
    IF HasColumn(df, name) THEN <<sentinel>> \o ObservedValues(df, name) ELSE <<sentinel>>

\* start_date, end_date of main: <<>> when no range applies
EffectiveRange(enable_date_filter, date_range) ==
    IF ~enable_date_filter THEN <<>>
    ELSE IF Len(date_range) = 2 THEN date_range
    ELSE IF Len(date_range) = 1 THEN <<date_range[1], date_range[1]>>
    ELSE <<>>

\* mask = (Timestamp.dt.date >= start_date) & (Timestamp.dt.date <= end_date)
DateFilter(df, range) ==
    IF range # <<>> /\ HasColumn(df, TIMESTAMP)
    THEN LET j == ColumnIndex(df, TIMESTAMP)
         IN [df EXCEPT !.rows =
                SelectSeq(df.rows, LAMBDA row : InDateRange(row[j], range[1], range[2]))]
    ELSE df

\* "Closure Insights": todays_closures and upcoming_closures
Closures(run) ==
    LET df == run.filtered_df
    IN IF HasColumn(df, EXPECTED_CLOSURE_DATE)
       THEN LET j == ColumnIndex(df, EXPECTED_CLOSURE_DATE)
            IN [run EXCEPT
                  !.todays_closures = SelectSeq(df.rows, LAMBDA row : IsDueToday(row[j], run.now)),
                  !.upcoming_closures = SelectSeq(df.rows, LAMBDA row : IsUpcoming(row[j], run.now)),
                  !.produced = @ \cup {"closures"}]
       ELSE run

\* main() below the sidebar, on the table df it loaded and the widget values
main(df, selected_bde, selected_plan, enable_date_filter, date_range, now) ==
    LET in == [NoRun EXCEPT !.df = df, !.selected_bde = selected_bde,
                            !.selected_plan = selected_plan, !.now = now,
                            !.date_range = EffectiveRange(enable_date_filter, date_range),
                            !.bde_options = Options(df, BDE_NAME, ALL_BDES),
                            !.plan_options = Options(df, PLAN, ALL_PLANS)]
    IN IF Failed(df) THEN Raise([NoRun EXCEPT !.df = df, !.now = now], 116)
       ELSE IF IsEmpty(df) THEN [NoRun EXCEPT !.df = df, !.now = now, !.status = "nodata"]
       ELSE IF selected_bde # ALL_BDES /\ ~HasColumn(df, BDE_NAME) THEN Raise(in, 158)
       ELSE IF selected_plan # ALL_PLANS /\ ~HasColumn(df, PLAN) THEN Raise(in, 161)
       ELSE LET df1 == IF selected_bde # ALL_BDES
                       THEN WhereEquals(df, BDE_NAME, selected_bde) ELSE df
                base_df == IF selected_plan # ALL_PLANS
                           THEN WhereEquals(df1, PLAN, selected_plan) ELSE df1
                f == DateFilter(base_df, in.date_range)
                metrics == [in EXCEPT !.filtered_df = f,
                                      !.total_responses = Len(f.rows),
                                      !.total_closed_amount = TotalClosedAmount(f),
                                      !.produced = {"total_responses", "total_closed_amount"}]
                r == Charts(Closures(metrics), 271)
            IN IF r.status = "raised" THEN r
               ELSE [r EXCEPT !.status = "ok", !.produced = @ \cup {"data_table"}]

-----------------------------------------------------------------------------
(* The sheets the model draws from.  A raw row holds one cell for each of   *)
(* Timestamp, BDE NAME, PLAN, CLOSED AMOUNT, Expected Closure Date.         *)

RowPool ==
    << <<DateStr(2, 0), Str("A"), Str("X"), NumStr(1200), DateStr(1, 1)>>,
       <<DateStr(2, 1), Str("B"), Str("Y"), NaN, DateStr(2, 0)>>,
       <<DateStr(1, 1), Str("A"), Str("Y"), Str("bad"), DateStr(UpcomingDays + 1, 1)>>,
       <<DateStr(1, 0), Str("B"), Str("X"), NumStr(300), DateStr(UpcomingDays + 2, 0)>>,
       <<Str("bad"), NaN, NaN, NumStr(-5), NaN>> >>

\* the sequences of at most n rows out of the first p rows of the pool
RowSeqs(p, n) == UNION {[1..m -> {RowPool[i] : i \in 1..p}] : m \in 0..n}

\* the non-empty subsequences of the recognized columns, as sets of positions
\* (a file without any column makes pd.read_csv raise: that is Unavailable)
ColumnSets == (SUBSET (1..Len(Recognized))) \ {{}}

\* pd.read_csv skips blank lines: a one-column table has no empty cell
ReadCsvYields(t) ==
    Len(t.columns) = 1 => \A r \in 1..Len(t.rows) : t.rows[r][1] # NaN

\* the sequence of the positions in S, ascending
Positions(S) == SortedSeq(S)

\* the sheet with the columns at positions S and the given rows cut to them
MakeSheet(S, rows) ==
    LET pos == Positions(S)
    IN [columns |-> [i \in 1..Len(pos) |-> Recognized[pos[i]]],
        rows |-> [r \in 1..Len(rows) |-> [i \in 1..Len(pos) |-> rows[r][pos[i]]]]]

RunSheets ==
    {t \in {MakeSheet(S, rows) : S \in ColumnSets, rows \in RowSeqs(Len(RowPool), MaxRows)} :
        ReadCsvYields(t)}

\* the sheets of the specification with edits: all columns, or PLAN or
\* CLOSED AMOUNT missing; rows out of the first two of the pool
EditColumnSets == {1..Len(Recognized), 1..Len(Recognized) \ {3}, 1..Len(Recognized) \ {4}}

EditSheets == {MakeSheet(S, rows) : S \in EditColumnSets, rows \in RowSeqs(2, EditRows)}

-----------------------------------------------------------------------------
(* State machine *)

\* Dash: bde_options / plan_options built at import from df_initial
DashOptions(df, name) ==
    IF ~IsEmpty(df) /\ HasColumn(df, name)
    THEN <<ALL>> \o ObservedValues(df, name) ELSE <<ALL>>

InitWith(sheets) ==
    /\ variant \in {"dash", "streamlit"}
    /\ sheet \in sheets
    /\ today = 1
    /\ cache = <<>>
    /\ df_initial = IF variant = "dash" THEN load_data("dash", sheet) ELSE EmptyDF
    /\ bde_options = IF variant = "dash" THEN DashOptions(df_initial, BDE_NAME) ELSE <<>>
    /\ plan_options = IF variant = "dash" THEN DashOptions(df_initial, PLAN) ELSE <<>>
    /\ out = NoRun
    /\ ndf = <<>>

Init == InitWith(EditSheets \cup {Unavailable})

InitRun == InitWith(RunSheets)

\* the sheet's owner edits it, or the export becomes (un)available
SheetEdit ==
    /\ sheet' \in (EditSheets \cup {Unavailable}) \ {sheet}
    /\ UNCHANGED <<variant, today, cache, df_initial, bde_options, plan_options, out, ndf>>

\* update_dashboard: df = load_data()
DashLoad(src) == load_data("dash", src)

\* a dropdown changes or the Refresh button is clicked: the callback runs
DashCallback ==
    /\ variant = "dash"
    /\ \E selected_bde \in Range(bde_options), selected_plan \in Range(plan_options) :
          out' = [update_dashboard(DashLoad(sheet), <<bde_options, plan_options>>,
                                   selected_bde, selected_plan)
                    EXCEPT !.trigger = "callback", !.fetched = TRUE,
                           !.fetch_failed = Failed(sheet)]
    /\ UNCHANGED <<variant, sheet, today, cache, df_initial, bde_options, plan_options, ndf>>

\* @st.cache_data(ttl=60): an entry is served while it is younger than ttl
CacheHit(c) == c # <<>> /\ c[1].age < TTL

\* load_data() through st.cache_data: <<table, cache after the call>>
CachedLoad(c, src) ==
    IF CacheHit(c) THEN <<c[1].df, c>>
    ELSE LET df == load_data("streamlit", src)
         IN <<df, <<[df |-> df, age |-> 0]>> >>

\* mutant: the Refresh button reruns without clearing the cache
ClearNothing(c) == c

\* st.cache_data.clear()
Clear(c) == <<>>

\* the date widgets: the checkbox and the tuple st.date_input returns
DateInputs ==
    {<<FALSE, <<>>>>} \cup
    {<<TRUE, r>> : r \in {<<>>} \cup {<<a>> : a \in 1..2}
                         \cup {<<a, b>> : a \in 1..2, b \in 1..2}}

\* the script runs because a widget changed: main()
StreamlitRun(dates) ==
    /\ variant = "streamlit"
    /\ LET loaded == CachedLoad(cache, sheet)
           df == loaded[1]
       IN /\ cache' = loaded[2]
          /\ \E selected_bde \in Range(Options(df, BDE_NAME, ALL_BDES)),
                selected_plan \in Range(Options(df, PLAN, ALL_PLANS)),
                d \in dates :
                /\ Len(d[2]) = 2 => d[2][1] <= d[2][2]
                /\ out' = [main(df, selected_bde, selected_plan, d[1], d[2], today)
                             EXCEPT !.trigger = "widget",
                                    !.fetched = ~CacheHit(cache),
                                    !.fetch_failed = ~CacheHit(cache) /\ Failed(sheet)]
    /\ UNCHANGED <<variant, sheet, today, df_initial, bde_options, plan_options, ndf>>

\* the sidebar was rendered as far as the Refresh button (line 151)
ButtonRendered(run) ==
    run.status = "ok" \/ (run.status = "raised" /\ run.raised_at > 151)

\* a selectbox keeps its value across a rerun while its options are the same
Persist(selected, old_options, new_options, sentinel) ==
    IF new_options = old_options THEN selected ELSE sentinel

\* "Refresh Data" is clicked: the script runs with the button True, and, when it
\* reaches the button, clears the cache and reruns from the top (st.rerun)
StreamlitRefresh ==
    /\ variant = "streamlit"
    /\ ButtonRendered(out)
    /\ LET click == CachedLoad(cache, sheet)
           df1 == click[1]
           bde1 == Persist(out.selected_bde, out.bde_options,
                           Options(df1, BDE_NAME, ALL_BDES), ALL_BDES)
           plan1 == Persist(out.selected_plan, out.plan_options,
                            Options(df1, PLAN, ALL_PLANS), ALL_PLANS)
           cleared == Clear(click[2])
           rerun == CachedLoad(cleared, sheet)
           df2 == rerun[1]
           bde2 == Persist(bde1, Options(df1, BDE_NAME, ALL_BDES),
                           Options(df2, BDE_NAME, ALL_BDES), ALL_BDES)
           plan2 == Persist(plan1, Options(df1, PLAN, ALL_PLANS),
                            Options(df2, PLAN, ALL_PLANS), ALL_PLANS)
       IN IF IsEmpty(df1)
          \* main returns at line 120: the button is not reached
          THEN /\ cache' = click[2]
               /\ out' = [main(df1, bde1, plan1, out.date_range # <<>>, out.date_range, today)
                            EXCEPT !.trigger = "widget",
                                   !.fetched = ~CacheHit(cache),
                                   !.fetch_failed = ~CacheHit(cache) /\ Failed(sheet)]
          ELSE /\ cache' = rerun[2]
               /\ out' = [main(df2, bde2, plan2, out.date_range # <<>>, out.date_range, today)
                            EXCEPT !.trigger = "refresh",
                                   !.fetched = ~CacheHit(cleared),
                                   !.fetch_failed = ~CacheHit(cleared) /\ Failed(sheet)]
    /\ UNCHANGED <<variant, sheet, today, df_initial, bde_options, plan_options, ndf>>

\* seconds pass: the cached entry ages (an age of TTL or more is expired)
Tick ==
    /\ CacheHit(cache)
    /\ cache' = <<[cache[1] EXCEPT !.age = IF @ + TickStep > TTL THEN TTL ELSE @ + TickStep]>>
    /\ UNCHANGED <<variant, sheet, today, df_initial, bde_options, plan_options, out, ndf>>

\* midnight passes: pd.Timestamp.now() is a day later, any cached entry has expired
NextDay ==
    /\ today < MaxToday
    /\ today' = today + 1
    /\ cache' = [i \in 1..Len(cache) |-> [cache[i] EXCEPT !.age = TTL]]
    /\ UNCHANGED <<variant, sheet, df_initial, bde_options, plan_options, out, ndf>>

\* the date widgets of the specification with edits: off, or the single day 1
FewDateInputs == {<<FALSE, <<>>>>, <<TRUE, <<1>>>>}

Next ==
    \/ SheetEdit
    \/ DashCallback
    \/ StreamlitRun(FewDateInputs)
    \/ StreamlitRefresh
    \/ Tick

Spec == Init /\ [][Next]_vars

\* one pipeline run on a sheet that stays as it is
FirstRun ==
    /\ out.status = "none"
    /\ (DashCallback \/ StreamlitRun(DateInputs))

NextRun == FirstRun \/ NextDay

SpecRun == InitRun /\ [][NextRun]_vars

-----------------------------------------------------------------------------
(* The normalizer alone, applied again to its own result *)

MaxPad == 2     \* blanks around a column name of a raw sheet

Pad(name, l, r) == [i \in 1..l |-> Blank] \o name \o [i \in 1..r |-> Blank]

\* the sheet with its names padded and moved shift columns to the right of their cells
Disguise(t, l, r, shift) ==
    [t EXCEPT !.columns = [i \in 1..Len(t.columns) |->
                              Pad(t.columns[((i - 1 + shift) % Len(t.columns)) + 1], l, r)]]

NormalizeSheets ==
    {Disguise(MakeSheet(1..Len(Recognized), rows), l, r, shift) :
        rows \in RowSeqs(Len(RowPool), MaxRows), l \in 0..MaxPad, r \in 0..MaxPad,
        shift \in 0..(Len(Recognized) - 1)}

InitNormalize ==
    /\ variant \in {"dash", "streamlit"}
    /\ sheet \in NormalizeSheets
    /\ today = 1
    /\ cache = <<>>
    /\ df_initial = EmptyDF
    /\ bde_options = <<>>
    /\ plan_options = <<>>
    /\ out = NoRun
    /\ ndf = <<>>

\* the normalizer runs on the parsed sheet, then on its own result
NormalizePass ==
    /\ Len(ndf) < 2
    /\ ndf' = Append(ndf, Normalize(variant, IF ndf = <<>> THEN sheet ELSE Last(ndf)))
    /\ UNCHANGED <<variant, sheet, today, cache, df_initial, bde_options, plan_options, out>>

NextNormalize == NormalizePass

SpecNormalize == InitNormalize /\ [][NextNormalize]_vars

-----------------------------------------------------------------------------
(* Properties *)

RunHappened == out.status # "none"

\* C1 as stated: when the read of the sheet fails, load_data returns an empty
\* table, no exception leaves the run, and the run (update_dashboard or main)
\* ends with total_responses = 0 and total_closed_amount = 0.
C1_FailedFetchYieldsZeroTotals ==
    out.fetch_failed =>
        /\ out.df = EmptyDF
        /\ out.status # "raised"
        /\ {"total_responses", "total_closed_amount"} \subseteq out.produced
        /\ out.total_responses = 0
        /\ out.total_closed_amount = 0

\* C1 amended: when the read of the sheet fails, load_data returns an empty
\* table and no exception leaves the run; update_dashboard returns
\* total_responses = 0 and total_closed_amount = 0, while main shows its
\* "no data" warning and returns before it computes or renders any metric.
C1_FailedFetchFailsSoft ==
    out.fetch_failed =>
        /\ out.df = EmptyDF
        /\ out.status # "raised"
        /\ variant = "dash" =>
              /\ out.status = "ok"
              /\ {"total_responses", "total_closed_amount"} \subseteq out.produced
              /\ out.total_responses = 0
              /\ out.total_closed_amount = 0
        /\ variant = "streamlit" =>
              /\ out.status = "nodata"
              /\ out.produced = {}

C1_Witness ==
    /\ variant = "dash"
    /\ out.fetch_failed
    /\ out.status = "ok"
    /\ out.total_responses = 0

\* the cell of a row under a column, null when the table has no such column
CellOrNull(df, row, name) == IF HasColumn(df, name) THEN row[ColumnIndex(df, name)] ELSE NaN

\* the CLOSED AMOUNT of a row, 0 when the table has no such column
AmountOrZero(df, row) ==
    IF HasColumn(df, CLOSED_AMOUNT) THEN row[ColumnIndex(df, CLOSED_AMOUNT)].n ELSE 0

SentinelBde == IF variant = "dash" THEN ALL ELSE ALL_BDES

SentinelPlan == IF variant = "dash" THEN ALL ELSE ALL_PLANS

\* the row satisfies every predicate the run's selection makes active
Matches(run, row) ==
    /\ run.selected_bde # SentinelBde =>
          CellOrNull(run.df, row, BDE_NAME) = Str(run.selected_bde)
    /\ run.selected_plan # SentinelPlan =>
          CellOrNull(run.df, row, PLAN) = Str(run.selected_plan)
    /\ run.date_range # <<>> =>
          LET c == CellOrNull(run.df, row, TIMESTAMP)
          IN /\ c.k = "dt"
             /\ run.date_range[1] <= DateOf(c)
             /\ DateOf(c) <= run.date_range[2]

MatchingRows(run) == {r \in 1..Len(run.df.rows) : Matches(run, run.df.rows[r])}

\* C2: for every loaded table and every filter selection, total_responses is
\* the number of rows that satisfy all active predicates (BDE, Plan, date
\* range) combined with AND, the ALL sentinel imposing none.  Stated for the
\* runs on a non-empty table that the groupby of the BDE chart does not abort.
C2_TotalResponsesCountsMatches ==
    (RunHappened /\ ~IsEmpty(out.df) /\ out.raised_at \notin {184, 271}) =>
        /\ "total_responses" \in out.produced
        /\ out.total_responses = Cardinality(MatchingRows(out))

\* C3: whenever a run produces total_closed_amount, it is >= 0 and is the sum
\* of CLOSED AMOUNT over the filtered rows (0 for none, 0 without the column).
C3_TotalClosedAmountNonNegativeSum ==
    "total_closed_amount" \in out.produced =>
        /\ out.total_closed_amount >= 0
        /\ out.total_closed_amount =
              SumSeq([r \in 1..Len(out.filtered_df.rows) |->
                        AmountOrZero(out.filtered_df, out.filtered_df.rows[r])])

\* C4: a run on a non-empty table never raises, whichever recognized columns
\* are absent, and without CLOSED AMOUNT it yields total_closed_amount = 0.
C4_MissingColumnsNeverRaise ==
    (RunHappened /\ ~IsEmpty(out.df)) =>
        /\ out.status # "raised"
        /\ ~HasColumn(out.df, CLOSED_AMOUNT) =>
              /\ "total_closed_amount" \in out.produced
              /\ out.total_closed_amount = 0

\* the filtered rows whose Timestamp falls on calendar day d
RowsOnDay(run, d) ==
    {r \in 1..Len(run.filtered_df.rows) :
        LET c == CellOrNull(run.filtered_df, run.filtered_df.rows[r], TIMESTAMP)
        IN c.k = "dt" /\ c.t \div TicksPerDay = d}

\* the filtered rows whose Timestamp is not null
RowsWithTimestamp(run) ==
    {r \in 1..Len(run.filtered_df.rows) :
        CellOrNull(run.filtered_df, run.filtered_df.rows[r], TIMESTAMP).k = "dt"}

\* dates strictly ascending (so none twice), every day of a filtered row
\* listed, each with the number of filtered rows on that day
ByDayWellFormed(run) ==
    LET dc == run.daily_counts
    IN /\ \A i \in 1..Len(dc) : \A j \in 1..Len(dc) : i < j => dc[i].date < dc[j].date
       /\ \A i \in 1..Len(dc) : dc[i].Count = Cardinality(RowsOnDay(run, dc[i].date))
       /\ \A r \in RowsWithTimestamp(run) : \E i \in 1..Len(dc) : r \in RowsOnDay(run, dc[i].date)

SumOfCounts(run) == SumSeq([i \in 1..Len(run.daily_counts) |-> run.daily_counts[i].Count])

\* C5 as stated: the By-Day aggregate lists the dates strictly ascending, none
\* twice, each with the count of filtered rows on that date, and the counts
\* sum to total_responses.
C5_ByDaySumsToTotalResponses ==
    "daily_counts" \in out.produced =>
        /\ ByDayWellFormed(out)
        /\ SumOfCounts(out) = out.total_responses

\* C5 amended: the By-Day aggregate lists the dates strictly ascending, none
\* twice, each with the count of filtered rows on that date, and the counts
\* sum to the number of filtered rows whose Timestamp is not null (which is
\* total_responses only when no filtered row has a null Timestamp).
C5_ByDaySumsToDatedRows ==
    "daily_counts" \in out.produced =>
        /\ ByDayWellFormed(out)
        /\ SumOfCounts(out) = Cardinality(RowsWithTimestamp(out))
        /\ SumOfCounts(out) <= out.total_responses
        /\ (Cardinality(RowsWithTimestamp(out)) = Len(out.filtered_df.rows)
               => SumOfCounts(out) = out.total_responses)

\* a By-Day aggregate over two rows, the later day first in the sheet
C5_Witness ==
    /\ "daily_counts" \in out.produced
    /\ Len(out.daily_counts) = 2
    /\ LET c1 == CellOrNull(out.filtered_df, out.filtered_df.rows[1], TIMESTAMP)
           c2 == CellOrNull(out.filtered_df, out.filtered_df.rows[2], TIMESTAMP)
       IN c1.t > c2.t

\* C6: with today the day read when the run is made, a filtered row whose
\* Expected Closure Date is today is in due_today and not in due_within_7_days;
\* one with today < closure date <= today + 7 days is in due_within_7_days and
\* not in due_today; any other row (8 or more days out, past, null) is in neither.
C6_ClosureBuckets ==
    "closures" \in out.produced =>
        \A r \in 1..Len(out.filtered_df.rows) :
            LET row == out.filtered_df.rows[r]
                c == CellOrNull(out.filtered_df, row, EXPECTED_CLOSURE_DATE)
                day == IF c.k = "dt" THEN c.t \div TicksPerDay ELSE -1
                dueToday == c.k = "dt" /\ day = out.now
                dueSoon == c.k = "dt" /\ out.now < day /\ day <= out.now + 7
                inToday == row \in Range(out.todays_closures)
                inSoon == row \in Range(out.upcoming_closures)
            IN /\ dueToday => (inToday /\ ~inSoon)
               /\ dueSoon => (inSoon /\ ~inToday)
               /\ (~dueToday /\ ~dueSoon) => (~inToday /\ ~inSoon)

\* a row due today (later in the day) and a row exactly 7 days out, bucketed
C6_Witness ==
    /\ "closures" \in out.produced
    /\ Len(out.todays_closures) = 1
    /\ Len(out.upcoming_closures) = 1
    /\ LET j == ColumnIndex(out.filtered_df, EXPECTED_CLOSURE_DATE)
       IN /\ out.todays_closures[1][j].t = out.now * TicksPerDay + 1
          /\ out.upcoming_closures[1][j].t \div TicksPerDay = out.now + 7

\* the typed columns of the variant's load_data
TypedAsDate(name) ==
    name = TIMESTAMP \/ (variant = "streamlit" /\ name = EXPECTED_CLOSURE_DATE)

\* C7: the normalizer is idempotent: applied to its own result, it returns
\* that result unchanged, for every parsed sheet.
C7_NormalizeIdempotent == Len(ndf) = 2 => ndf[2] = ndf[1]

\* two passes over a sheet with rows whose first pass changed names and cells
C7_Witness ==
    /\ Len(ndf) = 2
    /\ Len(sheet.rows) >= 1
    /\ sheet.columns[1][1] = Blank
    /\ ndf[1].columns # sheet.columns
    /\ ndf[1].rows # sheet.rows

\* C9: the normalizer keeps every row in its place: the result has as many rows
\* as the parsed sheet, a cell of a date column is the parsed datetime or null,
\* a cell of CLOSED AMOUNT is the parsed number or 0, every other cell is the
\* sheet's cell of the same row, and no cell content makes the normalizer fail.
C9_NormalizeKeepsRows ==
    Len(ndf) >= 1 =>
        LET n == ndf[1]
        IN /\ Len(n.rows) = Len(sheet.rows)
           /\ Len(n.columns) = Len(sheet.columns)
           /\ \A r \in 1..Len(n.rows) : \A j \in 1..Len(n.columns) :
                LET raw == sheet.rows[r][j]
                    cell == n.rows[r][j]
                IN IF TypedAsDate(n.columns[j])
                   THEN IF raw.k = "datestr"
                        THEN cell = Dt(raw.d * TicksPerDay + raw.h)
                        ELSE cell = NaT
                   ELSE IF n.columns[j] = CLOSED_AMOUNT
                   THEN IF raw.k = "numstr" THEN cell = Num(raw.n) ELSE cell = Num(0)
                   ELSE cell = raw

\* a sheet of two rows with an unparsable CLOSED AMOUNT and an unparsable Timestamp
C9_Witness ==
    /\ Len(ndf) >= 1
    /\ Len(sheet.rows) = 2
    /\ Len(ndf[1].rows) = 2
    /\ \E r \in 1..2 : \E j \in 1..Len(ndf[1].columns) :
          /\ ndf[1].columns[j] = CLOSED_AMOUNT
          /\ sheet.rows[r][j] = Str("bad")
          /\ ndf[1].rows[r][j] = Num(0)
    /\ \E r \in 1..2 : \E j \in 1..Len(ndf[1].columns) :
          /\ ndf[1].columns[j] = TIMESTAMP
          /\ sheet.rows[r][j] = Str("bad")
          /\ ndf[1].rows[r][j] = NaT

\* a step that drops or replaces a cache entry that is still being served
LiveEntryReplaced ==
    /\ CacheHit(cache)
    /\ \/ cache' = <<>>
       \/ cache'[1].df # cache[1].df
       \/ cache'[1].age < cache[1].age

\* C8: the cache in front of load_data holds one entry, which is given up only
\* when it has reached the 60 s TTL or when Refresh is clicked; and the run that
\* follows a Refresh uses a table read from the sheet after the click, never a
\* cached one.
C8_RefreshBypassesCache ==
    /\ [](Len(cache) <= 1 /\ (out.trigger = "refresh" => out.fetched))
    /\ [][LiveEntryReplaced => (out'.trigger = "refresh" /\ out'.fetched)]_vars

\* a Refresh run that read a sheet differing from the table served before it
C8_Witness ==
    /\ out.trigger = "refresh"
    /\ out.fetched
    /\ out.status = "ok"
    /\ cache # <<>>
    /\ cache[1].age = 0
    /\ out.df = load_data("streamlit", sheet)

\* the distinct non-null values of a column, none without the column
DistinctNonNull(df, name) ==
    IF HasColumn(df, name)
    THEN {c.s : c \in {x \in Range(Column(df, name)) : ~IsNull(x)}}
    ELSE {}

\* the options of a run are the values its own table holds, plus the sentinel
OptionsOfLoadedTable(run) ==
    /\ Range(run.bde_options) = {SentinelBde} \cup DistinctNonNull(run.df, BDE_NAME)
    /\ Range(run.plan_options) = {SentinelPlan} \cup DistinctNonNull(run.df, PLAN)

\* C10 as stated, for the runs on a non-empty table: in both variants the BDE
\* (Plan) values the user can select are exactly the distinct non-null
\* BDE NAME (PLAN) values of the table this run loaded, plus the ALL sentinel.
C10_OptionsFollowLoadedTable ==
    (out.status = "ok" /\ ~IsEmpty(out.df)) => OptionsOfLoadedTable(out)

\* the filtered rows of a run whose BDE NAME is the given cell
RowsNamed(run, cell) ==
    SelectSeq(run.filtered_df.rows,
              LAMBDA row : CellOrNull(run.filtered_df, row, BDE_NAME) = cell)

\* the distinct non-null BDE NAME values of the filtered rows
FilteredNames(run) == DistinctNonNull(run.filtered_df, BDE_NAME)

\* the sum of CLOSED AMOUNT over a sequence of filtered rows
AmountOfRows(run, rows) ==
    SumSeq([r \in 1..Len(rows) |-> AmountOrZero(run.filtered_df, rows[r])])

\* the run got as far as the BDE chart
ReachedBdeChart(run) ==
    run.status = "ok" \/ (run.status = "raised" /\ run.raised_at \in {184, 271})

\* C11: the By-BDE aggregate of a run has exactly one entry for each distinct
\* non-null BDE NAME of the filtered rows and none for another name; an
\* entry's count is the number of filtered rows with that name, its amount the
\* sum of their CLOSED AMOUNT; the counts sum to the number of filtered rows
\* with a non-null BDE NAME and the amounts to those rows' total.
C11_ByBdeAggregate ==
    ReachedBdeChart(out) =>
        LET agg == out.bde_metrics
            named == SelectSeq(out.filtered_df.rows,
                        LAMBDA row : ~IsNull(CellOrNull(out.filtered_df, row, BDE_NAME)))
        IN /\ {agg[i].name : i \in 1..Len(agg)} = FilteredNames(out)
           /\ Len(agg) = Cardinality(FilteredNames(out))
           /\ \A i \in 1..Len(agg) :
                 /\ agg[i].Count = Len(RowsNamed(out, Str(agg[i].name)))
                 /\ agg[i].amount = AmountOfRows(out, RowsNamed(out, Str(agg[i].name)))
           /\ SumSeq([i \in 1..Len(agg) |-> agg[i].Count]) = Len(named)
           /\ SumSeq([i \in 1..Len(agg) |-> agg[i].amount]) = AmountOfRows(out, named)

====
